---- MODULE Spec2Model ----
(***************************************************************************)
(* Model of the task-1 concurrency-control harness: one main process that  *)
(* bootstraps the row user_counter[user_id = 1] and starts NUM_PROCESSES   *)
(* worker processes, each running NUM_UPDATES iterations of one of the     *)
(* four strategies against the shared row.  The PostgreSQL behaviour the   *)
(* statements rely on (READ COMMITTED snapshots, row locks taken by UPDATE *)
(* and SELECT ... FOR UPDATE and held until the transaction ends) is part  *)
(* of the action that models the statement.                                *)
(***************************************************************************)
EXTENDS Integers, Sequences, FiniteSets, TLC

\* ---- bounds of the model ------------------------------------------------
MaxProcesses == 2   \* NUM_PROCESSES ranges over 1..MaxProcesses
MaxUpdates == 2     \* NUM_UPDATES ranges over 1..MaxUpdates
MaxPrior == 1       \* counter and version of a row left by an earlier run
MaxErrors == 1      \* store errors injected in one run
MaxAttempts == 3    \* max_attempts of wait_for_cluster_ready ranges over 1..MaxAttempts
MaxRetries == 3     \* max_retries of connect_to_cluster ranges over 1..MaxRetries

Strategies ==
    {"lost_update", "in_place_update", "row_level_locking",
     "optimistic_concurrency_control"}

Procs == 0..(MaxProcesses - 1)

VARIABLES
    strategy,       \* which of the four scripts is run
    NUM_PROCESSES,  \* os.getenv('NUM_PROCESSES')
    NUM_UPDATES,    \* os.getenv('NUM_UPDATES')
    user_counter,   \* the table: user_id -> [counter, version] (committed)
    holds,          \* holds[w]: w's open transaction holds the row lock
    mainPc,         \* position of the __main__ block
    started,        \* number of workers started by the spawn loop
    joined,         \* number of workers joined by the join loop
    bootstrapped,   \* ensure_row_exists committed its upsert in this run
    pc,             \* pc[w]: position of worker w
    i,              \* i[w]: loop index of worker w
    counter,        \* counter[w]: the worker's local variable counter
    version,        \* version[w]: the OCC worker's local variable version
    commits,        \* commits[w]: updates committed by w (history)
    met,            \* met[w]: conditions w has met (history)
    casLog,         \* expectedVersion of each committed compare-and-swap
    raced,          \* two lost_update workers held the same read value (history)
    errs            \* store errors raised so far

\* State of task-7/app/test_consistency.py (wait_for_cluster_ready, then
\* run_test: connect_to_cluster, then test_consistency_levels).
VARIABLES
    credentials,    \* CASSANDRA_USER and CASSANDRA_PASSWORD are both set
    max_attempts,   \* parameter of wait_for_cluster_ready
    max_retries,    \* parameter of connect_to_cluster
    cpc,            \* position of the script
    attempt,        \* loop variable of wait_for_cluster_ready
    ready,          \* what wait_for_cluster_ready returned ("pending" before)
    waitAttempts,   \* attempts wait_for_cluster_ready has made (history)
    waitSleeps,     \* time.sleep(delay) calls of wait_for_cluster_ready (history)
    retry_count,    \* local variable of connect_to_cluster
    session,        \* what connect_to_cluster returned ("none" before)
    connAttempts,   \* attempts connect_to_cluster has made (history)
    connSleeps,     \* time.sleep(retry_delay) calls of connect_to_cluster (history)
    lastError,      \* the exception of the latest failed connection attempt
    raisedError,    \* the exception that left connect_to_cluster ("none" if none)
    ks,             \* index in keyspaces of the keyspace under test
    cl,             \* index in consistency_levels of the level under test
    read_works,     \* local of test_consistency_levels
    write_works,    \* local of test_consistency_levels
    added_row       \* the row last added to the result table

clusterVars ==
    <<credentials, max_attempts, max_retries, cpc, attempt, ready, waitAttempts,
      waitSleeps, retry_count, session, connAttempts, connSleeps, lastError,
      raisedError, ks, cl, read_works, write_works, added_row>>

storeVars == <<user_counter, holds>>
mainVars == <<mainPc, started, joined, bootstrapped>>
workerVars == <<pc, i, counter, version>>
histVars == <<commits, met, casLog, raced>>
confVars == <<strategy, NUM_PROCESSES, NUM_UPDATES>>
counterVars == <<confVars, storeVars, mainVars, workerVars, histVars, errs>>
vars == <<counterVars, clusterVars>>

\* ---- the table ------------------------------------------------------------
RowExists == 1 \in DOMAIN user_counter
StoredCounter == user_counter[1].counter
StoredVersion == user_counter[1].version

BootRow == [counter |-> 0, version |-> 1]

\* Variant of Upsert: ON CONFLICT (user_id) DO NOTHING, which keeps a row that
\* is already there.
UpsertDoNothing(t) ==
    IF 1 \in DOMAIN t THEN t ELSE (1 :> BootRow) @@ t

\* Variant of Upsert: the statement inserts the row of another user,
\* VALUES (2, 0, 1).
UpsertOtherUser(t) ==
    IF 2 \in DOMAIN t
    THEN [t EXCEPT ![2] = BootRow]
    ELSE [u \in DOMAIN t \cup {2} |-> IF u = 2 THEN BootRow ELSE t[u]]

\* INSERT ... VALUES (1, 0, 1) ON CONFLICT (user_id) DO UPDATE SET
\* counter = EXCLUDED.counter, version = EXCLUDED.version
Upsert(t) ==
    IF 1 \in DOMAIN t
    THEN [t EXCEPT ![1] = [@ EXCEPT !.counter = BootRow.counter,
                                    !.version = BootRow.version]]
    ELSE (1 :> BootRow) @@ t

\* The row lock is free for w: no other open transaction holds it.
LockFreeFor(w) == \A u \in Procs : u # w => ~holds[u]

CanFail == errs < MaxErrors

\* test_consistency.py is not running: its variables have their resting values.
ClusterNotRun ==
    /\ credentials = TRUE
    /\ max_attempts = 1
    /\ max_retries = 1
    /\ cpc = "not run"
    /\ attempt = 0
    /\ ready = "pending"
    /\ waitAttempts = 0
    /\ waitSleeps = 0
    /\ retry_count = 0
    /\ session = "none"
    /\ connAttempts = 0
    /\ connSleeps = 0
    /\ lastError = "none"
    /\ raisedError = "none"
    /\ ks = 1
    /\ cl = 1
    /\ read_works = FALSE
    /\ write_works = FALSE
    /\ added_row = << >>

PriorTables ==
    {<< >>} \cup
    {(1 :> [counter |-> c, version |-> v]) : c \in 0..MaxPrior, v \in 0..MaxPrior}

Init ==
    /\ strategy \in Strategies
    /\ NUM_PROCESSES \in 1..MaxProcesses
    /\ NUM_UPDATES \in 1..MaxUpdates
    /\ user_counter \in PriorTables
    /\ holds = [w \in Procs |-> FALSE]
    /\ mainPc = "bootstrap"
    /\ started = 0
    /\ joined = 0
    /\ bootstrapped = FALSE
    /\ pc = [w \in Procs |-> "unstarted"]
    /\ i = [w \in Procs |-> 0]
    /\ counter = [w \in Procs |-> 0]
    /\ version = [w \in Procs |-> 0]
    /\ commits = [w \in Procs |-> 0]
    /\ met = [w \in Procs |-> {}]
    /\ casLog = << >>
    /\ raced = FALSE
    /\ errs = 0
    /\ ClusterNotRun

\* ---- __main__ ---------------------------------------------------------------
\* ensure_row_exists: connect, execute the upsert, commit.
ensure_row_exists ==
    /\ mainPc = "bootstrap"
    /\ user_counter' = Upsert(user_counter)
    /\ bootstrapped' = TRUE
    /\ mainPc' = "spawn"
    /\ UNCHANGED <<clusterVars, confVars, holds, started, joined, workerVars, histVars, errs>>

\* ensure_row_exists: the upsert or its commit raises; the except clause logs
\* the error and the function returns normally.
ensure_row_exists_error ==
    /\ mainPc = "bootstrap"
    /\ CanFail
    /\ errs' = errs + 1
    /\ mainPc' = "spawn"
    /\ UNCHANGED <<clusterVars, confVars, storeVars, started, joined, bootstrapped,
                   workerVars, histVars>>

\* ensure_row_exists: psycopg2.connect raises outside the try block; the
\* exception leaves the function and ends the script.
ensure_row_exists_connect_error ==
    /\ mainPc = "bootstrap"
    /\ CanFail
    /\ errs' = errs + 1
    /\ mainPc' = "crashed"
    /\ UNCHANGED <<clusterVars, confVars, storeVars, started, joined, bootstrapped,
                   workerVars, histVars>>

\* Variant of StartWorker: the spawn loop placed before the call of
\* ensure_row_exists.
StartWorkerBeforeBootstrap ==
    /\ mainPc \in {"bootstrap", "spawn"}
    /\ started < NUM_PROCESSES
    /\ pc' = [pc EXCEPT ![started] = "connect"]
    /\ started' = started + 1
    /\ mainPc' = IF mainPc = "bootstrap" THEN "bootstrap"
                 ELSE IF started + 1 = NUM_PROCESSES THEN "join" ELSE "spawn"
    /\ UNCHANGED <<clusterVars, confVars, storeVars, joined, bootstrapped, i, counter,
                   version, histVars, errs>>

\* for i in range(NUM_PROCESSES): Process(target=..., args=(i,)).start()
StartWorker ==
    /\ mainPc = "spawn"
    /\ started < NUM_PROCESSES
    /\ pc' = [pc EXCEPT ![started] = "connect"]
    /\ started' = started + 1
    /\ mainPc' = IF started + 1 = NUM_PROCESSES THEN "join" ELSE "spawn"
    /\ UNCHANGED <<clusterVars, confVars, storeVars, joined, bootstrapped, i, counter,
                   version, histVars, errs>>

\* Variant of JoinWorker: the join loop does not wait for the process to end.
JoinWorkerNoWait ==
    /\ mainPc = "join"
    /\ joined < NUM_PROCESSES
    /\ joined' = joined + 1
    /\ mainPc' = IF joined + 1 = NUM_PROCESSES THEN "report" ELSE "join"
    /\ UNCHANGED <<clusterVars, confVars, storeVars, started, bootstrapped, workerVars,
                   histVars, errs>>

\* for p in processes: p.join()
JoinWorker ==
    /\ mainPc = "join"
    /\ joined < NUM_PROCESSES
    /\ pc[joined] \in {"terminated", "crashed"}
    /\ joined' = joined + 1
    /\ mainPc' = IF joined + 1 = NUM_PROCESSES THEN "report" ELSE "join"
    /\ UNCHANGED <<clusterVars, confVars, storeVars, started, bootstrapped, workerVars,
                   histVars, errs>>

\* logging.info("... simulation completed in ... seconds.")
Report ==
    /\ mainPc = "report"
    /\ mainPc' = "done"
    /\ UNCHANGED <<clusterVars, confVars, storeVars, started, joined, bootstrapped,
                   workerVars, histVars, errs>>


\* ---- steps common to the four worker functions -------------------------------
Workers == 0..(NUM_PROCESSES - 1)

\* The first statement of the loop body.
FirstPc == IF strategy = "in_place_update" THEN "update" ELSE "select"

\* Variant of NextIteration: for i in range(NUM_UPDATES + 1).
NextIterationOneMore(w) ==
    /\ i' = [i EXCEPT ![w] = @ + 1]
    /\ pc' = [pc EXCEPT ![w] = IF i[w] + 1 < NUM_UPDATES + 1 THEN FirstPc ELSE "finally"]

\* End of one pass of the for loop: the next pass starts, or the loop is over and
\* control reaches the finally clause.
NextIteration(w) ==
    /\ i' = [i EXCEPT ![w] = @ + 1]
    /\ pc' = [pc EXCEPT ![w] = IF i[w] + 1 < NUM_UPDATES THEN FirstPc ELSE "finally"]

\* The locals counter and version are assigned by the next read before any
\* other use, and not used once the loop is left: where the code can no longer
\* read them they are cleared, so that states differing only in dead values
\* coincide.
Forget(w) ==
    /\ counter' = [counter EXCEPT ![w] = 0]
    /\ version' = [version EXCEPT ![w] = 0]

\* conn = psycopg2.connect(**DB_CONFIG); cursor = conn.cursor();
\* conn.set_isolation_level(...); the for loop is entered (NUM_UPDATES >= 1).
Connect(w) ==
    /\ pc[w] = "connect"
    /\ pc' = [pc EXCEPT ![w] = FirstPc]
    /\ UNCHANGED <<clusterVars, confVars, storeVars, mainVars, i, counter, version,
                   histVars, errs>>

\* psycopg2.connect raises before the try block: the process dies with the
\* exception, without a connection.
ConnectError(w) ==
    /\ pc[w] = "connect"
    /\ CanFail
    /\ errs' = errs + 1
    /\ pc' = [pc EXCEPT ![w] = "crashed"]
    /\ met' = [met EXCEPT ![w] = @ \cup {"StoreUnavailable"}]
    /\ UNCHANGED <<clusterVars, confVars, storeVars, mainVars, i, counter, version,
                   commits, casLog, raced>>

\* Variant of StatementError: no finally clause, the function returns from the
\* except clause with its connection and transaction left open.
StatementErrorNoFinally(w) ==
    /\ strategy # "optimistic_concurrency_control"
    /\ pc[w] \in {"select", "update", "commit"}
    /\ CanFail
    /\ errs' = errs + 1
    /\ pc' = [pc EXCEPT ![w] = "terminated"]
    /\ met' = [met EXCEPT ![w] = @ \cup {"StoreUnavailable"}]
    /\ Forget(w)
    /\ UNCHANGED <<clusterVars, confVars, storeVars, mainVars, i, commits, casLog, raced>>

\* Variant of StatementError: the exception is caught inside the for loop, which
\* goes on with its next pass.
StatementErrorContinues(w) ==
    /\ strategy # "optimistic_concurrency_control"
    /\ pc[w] \in {"select", "update", "commit"}
    /\ CanFail
    /\ errs' = errs + 1
    /\ NextIteration(w)
    /\ met' = [met EXCEPT ![w] = @ \cup {"StoreUnavailable"}]
    /\ Forget(w)
    /\ UNCHANGED <<clusterVars, confVars, storeVars, mainVars, commits, casLog, raced>>

\* lost_update, in_place_update, row_level_locking: a statement or the commit
\* raises; "except Exception" logs it and control reaches the finally clause.
\* The open transaction, with the lock it may hold, lasts until conn.close().
StatementError(w) ==
    /\ strategy # "optimistic_concurrency_control"
    /\ pc[w] \in {"select", "update", "commit"}
    /\ CanFail
    /\ errs' = errs + 1
    /\ pc' = [pc EXCEPT ![w] = "finally"]
    /\ met' = [met EXCEPT ![w] = @ \cup {"StoreUnavailable"}]
    /\ Forget(w)
    /\ UNCHANGED <<clusterVars, confVars, storeVars, mainVars, i, commits, casLog, raced>>

\* Variant of Close: the worker ends without closing its connection, and the
\* transaction it left open keeps the row lock.
CloseKeepsLock(w) ==
    /\ pc[w] = "finally"
    /\ pc' = [pc EXCEPT ![w] = "terminated"]
    /\ UNCHANGED <<clusterVars, confVars, storeVars, mainVars, i, counter, version,
                   histVars, errs>>

\* finally: cursor.close(); conn.close().  Closing the connection ends an open
\* transaction without committing it and releases its lock.
Close(w) ==
    /\ pc[w] = "finally"
    /\ pc' = [pc EXCEPT ![w] = "terminated"]
    /\ holds' = [holds EXCEPT ![w] = FALSE]
    /\ UNCHANGED <<clusterVars, confVars, user_counter, mainVars, i, counter, version,
                   histVars, errs>>

\* conn.commit() of a transaction that updated the row: the new row becomes the
\* committed one and the lock is released.
CommitRow(w, row) ==
    /\ user_counter' = [user_counter EXCEPT ![1] = row]
    /\ holds' = [holds EXCEPT ![w] = FALSE]
    /\ commits' = [commits EXCEPT ![w] = @ + 1]

\* ---- 1_lost_update.py ---------------------------------------------------------
\* Another worker has read the value c and has not yet committed its write of
\* c + 1 (its local counter holds c + 1 from the read until the commit).
ReadBySomeoneElse(w, c) ==
    \E u \in Workers \ {w} : pc[u] \in {"update", "commit"} /\ counter[u] = c + 1

\* Variant of lost_update_select: counter += 2.
lost_update_select_by_two(w) ==
    /\ strategy = "lost_update"
    /\ pc[w] = "select"
    /\ IF RowExists
       THEN /\ counter' = [counter EXCEPT ![w] = StoredCounter + 2]
            /\ pc' = [pc EXCEPT ![w] = "update"]
            /\ raced' = (raced \/ ReadBySomeoneElse(w, StoredCounter))
            /\ met' = met
       ELSE /\ pc' = [pc EXCEPT ![w] = "finally"]
            /\ met' = [met EXCEPT ![w] = @ \cup {"RowMissing"}]
            /\ UNCHANGED <<counter, raced>>
    /\ UNCHANGED <<clusterVars, confVars, storeVars, mainVars, i, version, commits, casLog, errs>>

\* Variant of lost_update_select: the statement counter += 1 is missing.
lost_update_select_no_increment(w) ==
    /\ strategy = "lost_update"
    /\ pc[w] = "select"
    /\ IF RowExists
       THEN /\ counter' = [counter EXCEPT ![w] = StoredCounter]
            /\ pc' = [pc EXCEPT ![w] = "update"]
            /\ raced' = (raced \/ ReadBySomeoneElse(w, StoredCounter))
            /\ met' = met
       ELSE /\ pc' = [pc EXCEPT ![w] = "finally"]
            /\ met' = [met EXCEPT ![w] = @ \cup {"RowMissing"}]
            /\ UNCHANGED <<counter, raced>>
    /\ UNCHANGED <<clusterVars, confVars, storeVars, mainVars, i, version, commits, casLog, errs>>

\* SELECT counter ...; row = cursor.fetchone(); counter = row[0]; counter += 1
\* (a plain read of the committed row, which no lock delays), or the break when
\* there is no row.
lost_update_select(w) ==
    /\ strategy = "lost_update"
    /\ pc[w] = "select"
    /\ IF RowExists
       THEN /\ counter' = [counter EXCEPT ![w] = StoredCounter + 1]
            /\ pc' = [pc EXCEPT ![w] = "update"]
            /\ raced' = (raced \/ ReadBySomeoneElse(w, StoredCounter))
            /\ met' = met
       ELSE /\ pc' = [pc EXCEPT ![w] = "finally"]
            /\ met' = [met EXCEPT ![w] = @ \cup {"RowMissing"}]
            /\ UNCHANGED <<counter, raced>>
    /\ UNCHANGED <<clusterVars, confVars, storeVars, mainVars, i, version, commits, casLog, errs>>

\* Variant of lost_update_update: the UPDATE carries the value that was read
\* (WHERE counter = %s) and the worker reads again when it matches no row.
lost_update_update_checked(w) ==
    /\ strategy = "lost_update"
    /\ pc[w] = "update"
    /\ IF StoredCounter + 1 = counter[w]
       THEN /\ LockFreeFor(w)
            /\ holds' = [holds EXCEPT ![w] = TRUE]
            /\ pc' = [pc EXCEPT ![w] = "commit"]
       ELSE /\ pc' = [pc EXCEPT ![w] = "select"]
            /\ holds' = holds
    /\ UNCHANGED <<clusterVars, confVars, user_counter, mainVars, i, counter, version,
                   histVars, errs>>

\* UPDATE user_counter SET counter = %s: waits for the row lock, then holds it.
lost_update_update(w) ==
    /\ strategy = "lost_update"
    /\ pc[w] = "update"
    /\ LockFreeFor(w)
    /\ holds' = [holds EXCEPT ![w] = TRUE]
    /\ pc' = [pc EXCEPT ![w] = "commit"]
    /\ UNCHANGED <<clusterVars, confVars, user_counter, mainVars, i, counter, version,
                   histVars, errs>>

\* Variant of lost_update_commit: the committed value is the stored counter
\* plus one (SET counter = counter + 1), not the value computed from the read.
lost_update_commit_increment(w) ==
    /\ strategy = "lost_update"
    /\ pc[w] = "commit"
    /\ CommitRow(w, [user_counter[1] EXCEPT !.counter = StoredCounter + 1])
    /\ NextIteration(w)
    /\ Forget(w)
    /\ UNCHANGED <<clusterVars, confVars, mainVars, met, casLog, raced, errs>>

\* conn.commit(); logging.info(...)
lost_update_commit(w) ==
    /\ strategy = "lost_update"
    /\ pc[w] = "commit"
    /\ CommitRow(w, [user_counter[1] EXCEPT !.counter = counter[w]])
    /\ NextIteration(w)
    /\ Forget(w)
    /\ UNCHANGED <<clusterVars, confVars, mainVars, met, casLog, raced, errs>>


\* ---- 2_in_place_update.py -----------------------------------------------------
\* Variant of in_place_update_execute: the new value is computed from the
\* committed row without waiting for the transaction that is updating it.
in_place_update_execute_unlocked(w) ==
    /\ strategy = "in_place_update"
    /\ pc[w] = "update"
    /\ IF RowExists
       THEN /\ holds' = [holds EXCEPT ![w] = TRUE]
            /\ counter' = [counter EXCEPT ![w] = StoredCounter + 1]
            /\ pc' = [pc EXCEPT ![w] = "commit"]
            /\ met' = met
       ELSE /\ pc' = [pc EXCEPT ![w] = "finally"]
            /\ met' = [met EXCEPT ![w] = @ \cup {"RowMissing"}]
            /\ UNCHANGED <<holds, counter>>
    /\ UNCHANGED <<clusterVars, confVars, user_counter, mainVars, i, version, commits, casLog, raced, errs>>

\* Variant of in_place_update_execute: SET counter = counter + 2.
in_place_update_execute_by_two(w) ==
    /\ strategy = "in_place_update"
    /\ pc[w] = "update"
    /\ IF RowExists
       THEN /\ LockFreeFor(w)
            /\ holds' = [holds EXCEPT ![w] = TRUE]
            /\ counter' = [counter EXCEPT ![w] = StoredCounter + 2]
            /\ pc' = [pc EXCEPT ![w] = "commit"]
            /\ met' = met
       ELSE /\ pc' = [pc EXCEPT ![w] = "finally"]
            /\ met' = [met EXCEPT ![w] = @ \cup {"RowMissing"}]
            /\ UNCHANGED <<holds, counter>>
    /\ UNCHANGED <<clusterVars, confVars, user_counter, mainVars, i, version, commits, casLog, raced, errs>>

\* UPDATE ... SET counter = counter + 1 ... RETURNING counter;
\* counter = cursor.fetchone()[0].  The statement waits for the row lock and
\* increments the row as committed at that moment.  With no row, fetchone()
\* returns None and None[0] raises, which the except clause catches.
in_place_update_execute(w) ==
    /\ strategy = "in_place_update"
    /\ pc[w] = "update"
    /\ IF RowExists
       THEN /\ LockFreeFor(w)
            /\ holds' = [holds EXCEPT ![w] = TRUE]
            /\ counter' = [counter EXCEPT ![w] = StoredCounter + 1]
            /\ pc' = [pc EXCEPT ![w] = "commit"]
            /\ met' = met
       ELSE /\ pc' = [pc EXCEPT ![w] = "finally"]
            /\ met' = [met EXCEPT ![w] = @ \cup {"RowMissing"}]
            /\ UNCHANGED <<holds, counter>>
    /\ UNCHANGED <<clusterVars, confVars, user_counter, mainVars, i, version, commits, casLog, raced, errs>>

\* conn.commit(); logging.info(...)
in_place_update_commit(w) ==
    /\ strategy = "in_place_update"
    /\ pc[w] = "commit"
    /\ CommitRow(w, [user_counter[1] EXCEPT !.counter = counter[w]])
    /\ NextIteration(w)
    /\ Forget(w)
    /\ UNCHANGED <<clusterVars, confVars, mainVars, met, casLog, raced, errs>>


\* ---- 3_row_level_locking.py ---------------------------------------------------
\* Variant of row_level_locking_select: a plain SELECT, without FOR UPDATE, that
\* neither waits for the row lock nor takes it.
row_level_locking_select_plain(w) ==
    /\ strategy = "row_level_locking"
    /\ pc[w] = "select"
    /\ IF RowExists
       THEN /\ counter' = [counter EXCEPT ![w] = StoredCounter + 1]
            /\ pc' = [pc EXCEPT ![w] = "update"]
            /\ UNCHANGED <<i, met>>
       ELSE /\ NextIteration(w)
            /\ met' = [met EXCEPT ![w] = @ \cup {"RowMissing"}]
            /\ counter' = counter
    /\ UNCHANGED <<clusterVars, confVars, storeVars, mainVars, version, commits, casLog, raced, errs>>

\* Variant of row_level_locking_select: the locking read returns at once, also
\* while another transaction holds the row lock.
row_level_locking_select_nowait(w) ==
    /\ strategy = "row_level_locking"
    /\ pc[w] = "select"
    /\ IF RowExists
       THEN /\ holds' = [holds EXCEPT ![w] = TRUE]
            /\ counter' = [counter EXCEPT ![w] = StoredCounter + 1]
            /\ pc' = [pc EXCEPT ![w] = "update"]
            /\ UNCHANGED <<i, met>>
       ELSE /\ NextIteration(w)
            /\ met' = [met EXCEPT ![w] = @ \cup {"RowMissing"}]
            /\ UNCHANGED <<holds, counter>>
    /\ UNCHANGED <<clusterVars, confVars, user_counter, mainVars, version, commits, casLog, raced, errs>>

\* SELECT counter ... FOR UPDATE; result = cursor.fetchone(); counter = result[0];
\* counter += 1.  The statement waits for the row lock and returns the row as
\* committed at that moment.  With no row the else branch logs a warning and the
\* for loop goes on.
row_level_locking_select(w) ==
    /\ strategy = "row_level_locking"
    /\ pc[w] = "select"
    /\ IF RowExists
       THEN /\ LockFreeFor(w)
            /\ holds' = [holds EXCEPT ![w] = TRUE]
            /\ counter' = [counter EXCEPT ![w] = StoredCounter + 1]
            /\ pc' = [pc EXCEPT ![w] = "update"]
            /\ UNCHANGED <<i, met>>
       ELSE /\ NextIteration(w)
            /\ met' = [met EXCEPT ![w] = @ \cup {"RowMissing"}]
            /\ UNCHANGED <<holds, counter>>
    /\ UNCHANGED <<clusterVars, confVars, user_counter, mainVars, version, commits, casLog, raced, errs>>

\* Variant of row_level_locking_update: the UPDATE is sent on a second
\* connection, where it waits for the row lock like any other transaction.
row_level_locking_update_second_connection(w) ==
    /\ strategy = "row_level_locking"
    /\ pc[w] = "update"
    /\ \A u \in Procs : ~holds[u]
    /\ pc' = [pc EXCEPT ![w] = "commit"]
    /\ UNCHANGED <<clusterVars, confVars, storeVars, mainVars, i, counter, version,
                   histVars, errs>>

\* UPDATE user_counter SET counter = %s, inside the transaction that holds the lock.
row_level_locking_update(w) ==
    /\ strategy = "row_level_locking"
    /\ pc[w] = "update"
    /\ pc' = [pc EXCEPT ![w] = "commit"]
    /\ UNCHANGED <<clusterVars, confVars, storeVars, mainVars, i, counter, version,
                   histVars, errs>>

\* conn.commit(); logging.info(...)
row_level_locking_commit(w) ==
    /\ strategy = "row_level_locking"
    /\ pc[w] = "commit"
    /\ CommitRow(w, [user_counter[1] EXCEPT !.counter = counter[w]])
    /\ NextIteration(w)
    /\ Forget(w)
    /\ UNCHANGED <<clusterVars, confVars, mainVars, met, casLog, raced, errs>>


\* ---- 4_optimistic_concurrency_control.py --------------------------------------
\* Variant of CasApplies: WHERE user_id = 1, without the version test.
CasAppliesAnyVersion(w) == RowExists

\* Variant of CasApplies: WHERE user_id = 1 AND version >= %s.
CasAppliesFromVersion(w) == RowExists /\ StoredVersion >= version[w]

\* The WHERE clause of the conditional UPDATE: user_id = 1 AND version = %s,
\* evaluated on the committed row.
CasApplies(w) == RowExists /\ StoredVersion = version[w]

\* Variant of optimistic_concurrency_control_select: the two columns are unpacked
\* in the wrong order (version, counter = result).
optimistic_concurrency_control_select_swapped(w) ==
    /\ strategy = "optimistic_concurrency_control"
    /\ pc[w] = "select"
    /\ IF RowExists
       THEN /\ counter' = [counter EXCEPT ![w] = StoredVersion + 1]
            /\ version' = [version EXCEPT ![w] = StoredCounter]
            /\ pc' = [pc EXCEPT ![w] = "update"]
            /\ UNCHANGED <<i, met>>
       ELSE /\ NextIteration(w)
            /\ met' = [met EXCEPT ![w] = @ \cup {"RowMissing"}]
            /\ UNCHANGED <<counter, version>>
    /\ UNCHANGED <<clusterVars, confVars, storeVars, mainVars, commits, casLog, raced, errs>>

\* SELECT counter, version ...; counter, version = result; counter += 1
\* (new_version = version + 1 is computed where it is used).  With no row the
\* else branch logs a warning and breaks out of the while loop.
optimistic_concurrency_control_select(w) ==
    /\ strategy = "optimistic_concurrency_control"
    /\ pc[w] = "select"
    /\ IF RowExists
       THEN /\ counter' = [counter EXCEPT ![w] = StoredCounter + 1]
            /\ version' = [version EXCEPT ![w] = StoredVersion]
            /\ pc' = [pc EXCEPT ![w] = "update"]
            /\ UNCHANGED <<i, met>>
       ELSE /\ NextIteration(w)
            /\ met' = [met EXCEPT ![w] = @ \cup {"RowMissing"}]
            /\ UNCHANGED <<counter, version>>
    /\ UNCHANGED <<clusterVars, confVars, storeVars, mainVars, commits, casLog, raced, errs>>

\* Variant of optimistic_concurrency_control_update: no while loop, a version
\* conflict ends the pass of the for loop like a success.
optimistic_concurrency_control_update_no_retry(w) ==
    /\ strategy = "optimistic_concurrency_control"
    /\ pc[w] = "update"
    /\ IF CasApplies(w)
       THEN /\ LockFreeFor(w)
            /\ holds' = [holds EXCEPT ![w] = TRUE]
            /\ pc' = [pc EXCEPT ![w] = "commit"]
            /\ UNCHANGED <<i, counter, version>>
       ELSE /\ NextIteration(w)
            /\ holds' = holds
            /\ Forget(w)
    /\ UNCHANGED <<clusterVars, confVars, user_counter, mainVars, histVars, errs>>

\* Variant of optimistic_concurrency_control_update: a version conflict ends the
\* worker's loop instead of repeating the round.
optimistic_concurrency_control_update_give_up(w) ==
    /\ strategy = "optimistic_concurrency_control"
    /\ pc[w] = "update"
    /\ IF CasApplies(w)
       THEN /\ LockFreeFor(w)
            /\ holds' = [holds EXCEPT ![w] = TRUE]
            /\ pc' = [pc EXCEPT ![w] = "commit"]
            /\ UNCHANGED <<counter, version>>
       ELSE /\ pc' = [pc EXCEPT ![w] = "finally"]
            /\ holds' = holds
            /\ Forget(w)
    /\ UNCHANGED <<clusterVars, confVars, user_counter, mainVars, i, histVars, errs>>

\* Variant of optimistic_concurrency_control_update: after a version conflict the
\* same UPDATE is sent again, without a new read.
optimistic_concurrency_control_update_stale_retry(w) ==
    /\ strategy = "optimistic_concurrency_control"
    /\ pc[w] = "update"
    /\ IF CasApplies(w)
       THEN /\ LockFreeFor(w)
            /\ holds' = [holds EXCEPT ![w] = TRUE]
            /\ pc' = [pc EXCEPT ![w] = "commit"]
       ELSE /\ pc' = pc
            /\ holds' = holds
    /\ UNCHANGED <<clusterVars, confVars, user_counter, mainVars, i, counter, version,
                   histVars, errs>>

\* UPDATE ... SET counter = %s, version = %s WHERE user_id = %s AND version = %s.
\* When the committed row has the expected version the statement waits for the
\* row lock and updates the row (rowcount 1); otherwise rowcount is 0, a warning
\* is logged and the while loop repeats.
optimistic_concurrency_control_update(w) ==
    /\ strategy = "optimistic_concurrency_control"
    /\ pc[w] = "update"
    /\ IF CasApplies(w)
       THEN /\ LockFreeFor(w)
            /\ holds' = [holds EXCEPT ![w] = TRUE]
            /\ pc' = [pc EXCEPT ![w] = "commit"]
            /\ UNCHANGED <<counter, version>>
       ELSE /\ pc' = [pc EXCEPT ![w] = "select"]
            /\ holds' = holds
            /\ Forget(w)
    /\ UNCHANGED <<clusterVars, confVars, user_counter, mainVars, i, histVars, errs>>

\* Variant of optimistic_concurrency_control_commit: the UPDATE stores the
\* version that was read instead of new_version.
optimistic_concurrency_control_commit_same_version(w) ==
    /\ strategy = "optimistic_concurrency_control"
    /\ pc[w] = "commit"
    /\ CommitRow(w, [counter |-> counter[w], version |-> version[w]])
    /\ casLog' = Append(casLog, version[w])
    /\ NextIteration(w)
    /\ Forget(w)
    /\ UNCHANGED <<clusterVars, confVars, mainVars, met, raced, errs>>

\* Variant of optimistic_concurrency_control_commit: new_version = version + 2.
optimistic_concurrency_control_commit_version_by_two(w) ==
    /\ strategy = "optimistic_concurrency_control"
    /\ pc[w] = "commit"
    /\ CommitRow(w, [counter |-> counter[w], version |-> version[w] + 2])
    /\ casLog' = Append(casLog, version[w])
    /\ NextIteration(w)
    /\ Forget(w)
    /\ UNCHANGED <<clusterVars, confVars, mainVars, met, raced, errs>>

\* conn.commit(); logging.info(...); break
optimistic_concurrency_control_commit(w) ==
    /\ strategy = "optimistic_concurrency_control"
    /\ pc[w] = "commit"
    /\ CommitRow(w, [counter |-> counter[w], version |-> version[w] + 1])
    /\ casLog' = Append(casLog, version[w])
    /\ NextIteration(w)
    /\ Forget(w)
    /\ UNCHANGED <<clusterVars, confVars, mainVars, met, raced, errs>>

\* Variant of optimistic_concurrency_control_error: after the rollback the for
\* loop goes on with its next pass.
optimistic_concurrency_control_error_skips(w) ==
    /\ strategy = "optimistic_concurrency_control"
    /\ pc[w] \in {"select", "update", "commit"}
    /\ CanFail
    /\ errs' = errs + 1
    /\ holds' = [holds EXCEPT ![w] = FALSE]
    /\ NextIteration(w)
    /\ met' = [met EXCEPT ![w] = @ \cup {"StoreUnavailable"}]
    /\ Forget(w)
    /\ UNCHANGED <<clusterVars, confVars, user_counter, mainVars, commits, casLog, raced>>

\* except Exception (inner): a statement or the commit raises; the error is
\* logged, conn.rollback() ends the transaction and the while loop repeats.
optimistic_concurrency_control_error(w) ==
    /\ strategy = "optimistic_concurrency_control"
    /\ pc[w] \in {"select", "update", "commit"}
    /\ CanFail
    /\ errs' = errs + 1
    /\ holds' = [holds EXCEPT ![w] = FALSE]
    /\ pc' = [pc EXCEPT ![w] = "select"]
    /\ met' = [met EXCEPT ![w] = @ \cup {"StoreUnavailable"}]
    /\ Forget(w)
    /\ UNCHANGED <<clusterVars, confVars, user_counter, mainVars, i, commits, casLog, raced>>

\* The connection is lost: the statement raises and conn.rollback() in the inner
\* except clause raises too; the outer "except Exception" logs it and control
\* reaches the finally clause.
optimistic_concurrency_control_fatal(w) ==
    /\ strategy = "optimistic_concurrency_control"
    /\ pc[w] \in {"select", "update", "commit"}
    /\ CanFail
    /\ errs' = errs + 1
    /\ pc' = [pc EXCEPT ![w] = "finally"]
    /\ met' = [met EXCEPT ![w] = @ \cup {"StoreUnavailable"}]
    /\ Forget(w)
    /\ UNCHANGED <<clusterVars, confVars, storeVars, mainVars, i, commits, casLog, raced>>

\* The error persists: a worker whose statement raised and was rolled back
\* meets the error again in the next round of the while loop, which has no cap
\* on the number of rounds.
optimistic_concurrency_control_error_again(w) ==
    /\ strategy = "optimistic_concurrency_control"
    /\ pc[w] \in {"select", "update", "commit"}
    /\ "StoreUnavailable" \in met[w]
    /\ holds' = [holds EXCEPT ![w] = FALSE]
    /\ pc' = [pc EXCEPT ![w] = "select"]
    /\ Forget(w)
    /\ UNCHANGED <<clusterVars, confVars, user_counter, mainVars, i, histVars, errs>>


\* ---- task-7/app: db_connection.py and test_consistency.py ------------------------
\* The exceptions Cluster(...), cluster.connect() and session.execute() raise.
ConnectionErrors == {"NoHostAvailable", "OperationTimedOut"}

\* The task-1 scripts are not running: their variables have resting values.
CountersNotRun ==
    /\ strategy = "lost_update"
    /\ NUM_PROCESSES = 1
    /\ NUM_UPDATES = 1
    /\ user_counter = << >>
    /\ holds = [w \in Procs |-> FALSE]
    /\ mainPc = "not run"
    /\ started = 0
    /\ joined = 0
    /\ bootstrapped = FALSE
    /\ pc = [w \in Procs |-> "unstarted"]
    /\ i = [w \in Procs |-> 0]
    /\ counter = [w \in Procs |-> 0]
    /\ version = [w \in Procs |-> 0]
    /\ commits = [w \in Procs |-> 0]
    /\ met = [w \in Procs |-> {}]
    /\ casLog = << >>
    /\ raced = FALSE
    /\ errs = 0

\* if __name__ == "__main__": db.wait_for_cluster_ready() is entered; the for
\* loop starts with attempt = 1.
ConsistencyTestInit ==
    /\ CountersNotRun
    /\ credentials \in BOOLEAN
    /\ max_attempts \in 1..MaxAttempts
    /\ max_retries \in 1..MaxRetries
    /\ cpc = "wait_try"
    /\ attempt = 1
    /\ ready = "pending"
    /\ waitAttempts = 0
    /\ waitSleeps = 0
    /\ retry_count = 0
    /\ session = "none"
    /\ connAttempts = 0
    /\ connSleeps = 0
    /\ lastError = "none"
    /\ raisedError = "none"
    /\ ks = 1
    /\ cl = 1
    /\ read_works = FALSE
    /\ write_works = FALSE
    /\ added_row = << >>

waitLocals == <<attempt, ready, waitAttempts, waitSleeps>>
connectLocals == <<retry_count, session, connAttempts, connSleeps, lastError, raisedError>>
testLocals == <<ks, cl, read_works, write_works, added_row>>
clusterParams == <<credentials, max_attempts, max_retries>>

\* wait_for_cluster_ready, try block without exception: create_auth_provider,
\* Cluster(...), cluster.connect(), the query on system.peers,
\* cluster.shutdown(); return True.  run_test then calls connect_to_cluster.
wait_for_cluster_ready_success ==
    /\ cpc = "wait_try"
    /\ credentials
    /\ waitAttempts' = waitAttempts + 1
    /\ ready' = "True"
    /\ cpc' = "connect_auth"
    /\ UNCHANGED <<counterVars, clusterParams, attempt, waitSleeps, connectLocals,
                   testLocals>>

\* Variant of wait_for_cluster_ready_failure: the except clause re-raises after
\* the last attempt instead of returning False.
wait_for_cluster_ready_failure_raises ==
    /\ cpc = "wait_try"
    /\ waitAttempts' = waitAttempts + 1
    /\ IF attempt = max_attempts
       THEN /\ cpc' = "raised"
            /\ ready' = ready
       ELSE /\ cpc' = "wait_sleep"
            /\ ready' = ready
    /\ UNCHANGED <<counterVars, clusterParams, attempt, waitSleeps, connectLocals,
                   testLocals>>

\* wait_for_cluster_ready, except Exception: create_auth_provider raises
\* ValueError (credentials not set) or the cluster cannot be reached or queried.
\* After the last attempt: log a warning and return False (run_test is called
\* next); otherwise log and go on to time.sleep(delay).
wait_for_cluster_ready_failure ==
    /\ cpc = "wait_try"
    /\ waitAttempts' = waitAttempts + 1
    /\ IF attempt = max_attempts
       THEN /\ cpc' = "connect_auth"
            /\ ready' = "False"
       ELSE /\ cpc' = "wait_sleep"
            /\ ready' = ready
    /\ UNCHANGED <<counterVars, clusterParams, attempt, waitSleeps, connectLocals,
                   testLocals>>

\* time.sleep(delay); the for loop takes the next value of attempt.
wait_for_cluster_ready_sleep ==
    /\ cpc = "wait_sleep"
    /\ waitSleeps' = waitSleeps + 1
    /\ attempt' = attempt + 1
    /\ cpc' = "wait_try"
    /\ UNCHANGED <<counterVars, clusterParams, ready, waitAttempts, connectLocals,
                   testLocals>>

\* connect_to_cluster: auth_provider = create_auth_provider(); retry_count = 0.
\* The call is outside the try block: without credentials its ValueError leaves
\* connect_to_cluster, and run_test, which calls it outside its own try.
create_auth_provider ==
    /\ cpc = "connect_auth"
    /\ IF credentials
       THEN /\ cpc' = "connect_try"
            /\ raisedError' = raisedError
       ELSE /\ cpc' = "raised"
            /\ raisedError' = "ValueError"
    /\ UNCHANGED <<counterVars, clusterParams, waitLocals, retry_count, session,
                   connAttempts, connSleeps, lastError, testLocals>>

\* while retry_count < max_retries: try: Cluster(...); cluster.connect();
\* return cluster, session.  run_test goes on to test_consistency_levels.
connect_to_cluster_success ==
    /\ cpc = "connect_try"
    /\ retry_count < max_retries
    /\ connAttempts' = connAttempts + 1
    /\ session' = "session"
    /\ cpc' = "test_read"
    /\ UNCHANGED <<counterVars, clusterParams, waitLocals, retry_count, connSleeps,
                   lastError, raisedError, testLocals>>

\* Variant of connect_to_cluster_failure: time.sleep(retry_delay) placed before
\* the test of retry_count, so that the function sleeps before it re-raises.
connect_to_cluster_failure_sleeps_first(e) ==
    /\ cpc = "connect_try"
    /\ retry_count < max_retries
    /\ connAttempts' = connAttempts + 1
    /\ retry_count' = retry_count + 1
    /\ lastError' = e
    /\ connSleeps' = connSleeps + 1
    /\ IF retry_count + 1 >= max_retries
       THEN /\ cpc' = "raised"
            /\ raisedError' = e
       ELSE /\ cpc' = "connect_try"
            /\ raisedError' = raisedError
    /\ UNCHANGED <<counterVars, clusterParams, waitLocals, session, testLocals>>

\* except Exception as e: retry_count += 1; log; if retry_count >= max_retries:
\* raise (the exception being handled); otherwise go on to time.sleep.
connect_to_cluster_failure(e) ==
    /\ cpc = "connect_try"
    /\ retry_count < max_retries
    /\ connAttempts' = connAttempts + 1
    /\ retry_count' = retry_count + 1
    /\ lastError' = e
    /\ IF retry_count + 1 >= max_retries
       THEN /\ cpc' = "raised"
            /\ raisedError' = e
       ELSE /\ cpc' = "connect_sleep"
            /\ raisedError' = raisedError
    /\ UNCHANGED <<counterVars, clusterParams, waitLocals, session, connSleeps,
                   testLocals>>

\* time.sleep(retry_delay); back to the test of the while loop.
connect_to_cluster_sleep ==
    /\ cpc = "connect_sleep"
    /\ connSleeps' = connSleeps + 1
    /\ cpc' = "connect_try"
    /\ UNCHANGED <<counterVars, clusterParams, waitLocals, retry_count, session,
                   connAttempts, lastError, raisedError, testLocals>>

\* keyspaces of test_consistency_levels: the replication factor of each.
keyspaces == <<1, 2, 3>>

\* consistency_levels of test_consistency_levels: the names, in order.
consistency_levels == <<"ONE", "TWO", "THREE", "QUORUM", "ALL">>

\* cassandra.ConsistencyLevel: the integer code of each level (cl_value).
ConsistencyLevel == [ONE |-> 1, TWO |-> 2, THREE |-> 3, QUORUM |-> 4, ALL |-> 5]

\* Number of replicas that must answer for a level on a keyspace of
\* replication factor rf.
Replicas(level, rf) ==
    CASE level = "ONE" -> 1
      [] level = "TWO" -> 2
      [] level = "THREE" -> 3
      [] level = "QUORUM" -> (rf \div 2) + 1
      [] level = "ALL" -> rf

\* A request can be answered only if the keyspace has as many replicas as the
\* level asks for; whether enough of them are up is up to the cluster (one node
\* is stopped during the test).
CanSucceed(level, rf) == Replicas(level, rf) <= rf

\* Variant of StrongByCode: cl_value > rf.
StrongByCodeNoHalf(cl_value, rf) == cl_value > rf

\* cl_value > rf/2, with Python's true division: the same as 2 * cl_value > rf.
StrongByCode(cl_value, rf) == 2 * cl_value > rf

\* The SELECT at the level under test: read_works is set when it returns, the
\* except clause logs when it raises.
test_consistency_levels_read ==
    /\ cpc = "test_read"
    /\ \E ok \in BOOLEAN :
          /\ ok => CanSucceed(consistency_levels[cl], keyspaces[ks])
          /\ read_works' = ok
    /\ write_works' = FALSE
    /\ cpc' = "test_write"
    /\ UNCHANGED <<counterVars, clusterParams, waitLocals, connectLocals, ks, cl, added_row>>

\* The INSERT at the level under test.
test_consistency_levels_write ==
    /\ cpc = "test_write"
    /\ \E ok \in BOOLEAN :
          /\ ok => CanSucceed(consistency_levels[cl], keyspaces[ks])
          /\ write_works' = ok
    /\ cpc' = "test_row"
    /\ UNCHANGED <<counterVars, clusterParams, waitLocals, connectLocals, ks, cl,
                   read_works, added_row>>

\* strong_consistency = yes if cl_value > rf/2 else no; N/A if the read or the
\* write failed; table.add_row(...); next level, next keyspace, or the end of
\* the loops.
test_consistency_levels_add_row ==
    /\ cpc = "test_row"
    /\ added_row' = [rf |-> keyspaces[ks],
               cl_name |-> consistency_levels[cl],
               read_works |-> read_works,
               write_works |-> write_works,
               strong_consistency |->
                   IF ~read_works \/ ~write_works THEN "N/A"
                   ELSE IF StrongByCode(ConsistencyLevel[consistency_levels[cl]],
                                        keyspaces[ks])
                        THEN "yes" ELSE "no"]
    /\ IF cl < Len(consistency_levels)
       THEN cl' = cl + 1 /\ ks' = ks /\ cpc' = "test_read"
       ELSE IF ks < Len(keyspaces)
            THEN cl' = 1 /\ ks' = ks + 1 /\ cpc' = "test_read"
            ELSE cl' = cl /\ ks' = ks /\ cpc' = "done"
    /\ read_works' = FALSE
    /\ write_works' = FALSE
    /\ UNCHANGED <<counterVars, clusterParams, waitLocals, connectLocals>>

ConsistencyTestNext ==
    \/ wait_for_cluster_ready_success
    \/ wait_for_cluster_ready_failure
    \/ wait_for_cluster_ready_sleep
    \/ create_auth_provider
    \/ connect_to_cluster_success
    \/ \E e \in ConnectionErrors : connect_to_cluster_failure(e)
    \/ connect_to_cluster_sleep
    \/ test_consistency_levels_read
    \/ test_consistency_levels_write
    \/ test_consistency_levels_add_row

\* test_consistency.py for every setting of the credentials and every
\* max_attempts and max_retries within the bounds.
ConsistencyTestSpec == ConsistencyTestInit /\ [][ConsistencyTestNext]_vars

\* ---- specifications -----------------------------------------------------------
Next ==
    \/ ensure_row_exists
    \/ ensure_row_exists_error
    \/ ensure_row_exists_connect_error
    \/ StartWorker
    \/ JoinWorker
    \/ Report
    \/ \E w \in Workers : Connect(w)
    \/ \E w \in Workers : ConnectError(w)
    \/ \E w \in Workers : StatementError(w)
    \/ \E w \in Workers : Close(w)
    \/ \E w \in Workers : lost_update_select(w)
    \/ \E w \in Workers : lost_update_update(w)
    \/ \E w \in Workers : lost_update_commit(w)
    \/ \E w \in Workers : in_place_update_execute(w)
    \/ \E w \in Workers : in_place_update_commit(w)
    \/ \E w \in Workers : row_level_locking_select(w)
    \/ \E w \in Workers : row_level_locking_update(w)
    \/ \E w \in Workers : row_level_locking_commit(w)
    \/ \E w \in Workers : optimistic_concurrency_control_select(w)
    \/ \E w \in Workers : optimistic_concurrency_control_update(w)
    \/ \E w \in Workers : optimistic_concurrency_control_commit(w)
    \/ \E w \in Workers : optimistic_concurrency_control_error(w)
    \/ \E w \in Workers : optimistic_concurrency_control_fatal(w)

\* All four scripts, from every prior content of the table.
Spec == Init /\ [][Next]_vars

\* The steps of __main__ that raise no error.
MainStep ==
    \/ ensure_row_exists
    \/ StartWorker
    \/ JoinWorker
    \/ Report

\* The steps of worker w that raise no error.
WorkerStep(w) ==
    \/ Connect(w)
    \/ Close(w)
    \/ lost_update_select(w)
    \/ lost_update_update(w)
    \/ lost_update_commit(w)
    \/ in_place_update_execute(w)
    \/ in_place_update_commit(w)
    \/ row_level_locking_select(w)
    \/ row_level_locking_update(w)
    \/ row_level_locking_commit(w)
    \/ optimistic_concurrency_control_select(w)
    \/ optimistic_concurrency_control_update(w)
    \/ optimistic_concurrency_control_commit(w)

NextPersistent ==
    \/ Next
    \/ \E w \in Workers : optimistic_concurrency_control_error_again(w)

\* Every process is scheduled again and again, and a statement that waits for
\* the row lock gets it when the holder's transaction ends (the store queues
\* the waiters): the error-free step of a process that is enabled again and
\* again is eventually taken.  Whether a statement raises is up to the store.
Fairness ==
    /\ WF_vars(MainStep)
    /\ \A w \in Procs : SF_vars(WorkerStep(w))

\* All four scripts under fair scheduling, with store errors that may persist.
FairSpec == Init /\ [][NextPersistent]_vars /\ Fairness

\* All four scripts under weakly fair scheduling: a process whose error-free
\* step stays enabled is eventually scheduled.
WeakFairness ==
    /\ WF_vars(MainStep)
    /\ \A w \in Procs : WF_vars(WorkerStep(w))

WeakFairSpec == Init /\ [][Next]_vars /\ WeakFairness

\* Number of updates committed so far by the workers 0..k.
RECURSIVE SumCommits(_)
SumCommits(k) == IF k < 0 THEN 0 ELSE commits[k] + SumCommits(k - 1)

\* Number of updates committed so far by all workers of the run.
TotalCommits == SumCommits(MaxProcesses - 1)

\* 1_lost_update.py alone, with NUM_UPDATES up to MaxUpdates + 1.
LostUpdateInit ==
    /\ strategy = "lost_update"
    /\ NUM_PROCESSES \in 1..MaxProcesses
    /\ NUM_UPDATES \in 1..(MaxUpdates + 1)
    /\ user_counter \in PriorTables
    /\ holds = [w \in Procs |-> FALSE]
    /\ mainPc = "bootstrap"
    /\ started = 0
    /\ joined = 0
    /\ bootstrapped = FALSE
    /\ pc = [w \in Procs |-> "unstarted"]
    /\ i = [w \in Procs |-> 0]
    /\ counter = [w \in Procs |-> 0]
    /\ version = [w \in Procs |-> 0]
    /\ commits = [w \in Procs |-> 0]
    /\ met = [w \in Procs |-> {}]
    /\ casLog = << >>
    /\ raced = FALSE
    /\ errs = 0
    /\ ClusterNotRun

LostUpdateNext ==
    \/ ensure_row_exists
    \/ ensure_row_exists_error
    \/ ensure_row_exists_connect_error
    \/ StartWorker
    \/ JoinWorker
    \/ Report
    \/ \E w \in Workers : Connect(w)
    \/ \E w \in Workers : ConnectError(w)
    \/ \E w \in Workers : StatementError(w)
    \/ \E w \in Workers : Close(w)
    \/ \E w \in Workers : lost_update_select(w)
    \/ \E w \in Workers : lost_update_update(w)
    \/ \E w \in Workers : lost_update_commit(w)

LostUpdateSpec == LostUpdateInit /\ [][LostUpdateNext]_vars

\* ---- claims --------------------------------------------------------------------
\* The row was bootstrapped and every worker of the pool ran to its end without
\* meeting a store error.
CompletedClean ==
    /\ bootstrapped
    /\ \A w \in Workers : pc[w] = "terminated" /\ "StoreUnavailable" \notin met[w]

ExpectedTotal == NUM_PROCESSES * NUM_UPDATES

\* C1: in-place strategy: from a bootstrapped counter of 0, whenever all workers
\* have completed without store errors the counter is exactly
\* NUM_PROCESSES * NUM_UPDATES.
InPlaceFinalCounter ==
    (strategy = "in_place_update" /\ CompletedClean)
        => (RowExists /\ StoredCounter = ExpectedTotal)

InPlaceFinalCounterWitness ==
    /\ strategy = "in_place_update"
    /\ CompletedClean
    /\ NUM_PROCESSES = 2 /\ NUM_UPDATES = 2
    /\ StoredCounter = 4

\* C2: row-lock strategy: from a bootstrapped counter of 0, whenever all workers
\* have completed without store errors the counter is exactly
\* NUM_PROCESSES * NUM_UPDATES.
RowLockFinalCounter ==
    (strategy = "row_level_locking" /\ CompletedClean)
        => (RowExists /\ StoredCounter = ExpectedTotal)

RowLockFinalCounterWitness ==
    /\ strategy = "row_level_locking"
    /\ CompletedClean
    /\ NUM_PROCESSES = 2 /\ NUM_UPDATES = 2
    /\ StoredCounter = 4

\* C3: OCC strategy: from a bootstrapped row (counter 0, version 1), whenever all
\* workers have completed without store errors the counter is exactly
\* NUM_PROCESSES * NUM_UPDATES, whatever compare-and-swaps failed on the way.
OCCFinalCounter ==
    (strategy = "optimistic_concurrency_control" /\ CompletedClean)
        => (RowExists /\ StoredCounter = ExpectedTotal)

\* An OCC run of two workers completed with the full count.
OCCFinalCounterWitness ==
    /\ strategy = "optimistic_concurrency_control"
    /\ CompletedClean
    /\ NUM_PROCESSES = 2 /\ NUM_UPDATES = 2
    /\ StoredCounter = 4

\* C4: lost-update strategy: when two workers read the same counter value before
\* either committed its write, the run (bootstrapped, free of store errors) ends
\* with a counter strictly below NUM_PROCESSES * NUM_UPDATES; with two workers
\* and one update each it ends with counter 1.
LostUpdateLosesIncrement ==
    (strategy = "lost_update" /\ CompletedClean /\ raced)
        => /\ StoredCounter < ExpectedTotal
           /\ (NUM_PROCESSES = 2 /\ NUM_UPDATES = 1) => StoredCounter = 1

\* The scenario p = 2, n = 1: both workers read 0 and the run ends with 1.
LostUpdateLosesIncrementWitness ==
    /\ strategy = "lost_update"
    /\ CompletedClean
    /\ raced
    /\ NUM_PROCESSES = 2 /\ NUM_UPDATES = 1
    /\ StoredCounter = 1

\* w is between its locking read and the end of that transaction.
InLockedSection(w) == holds[w] \/ pc[w] \in {"update", "commit"}

\* C5: row-lock strategy: at most one worker is between its locking read and the
\* commit or connection close that ends its transaction.
RowLockMutualExclusion ==
    strategy = "row_level_locking"
        => \A w, u \in Procs : (InLockedSection(w) /\ InLockedSection(u)) => w = u

\* One worker holds the lock while another is at its locking read.
RowLockMutualExclusionWitness ==
    /\ strategy = "row_level_locking"
    /\ \E w, u \in Workers : w # u /\ holds[w] /\ pc[w] = "commit" /\ pc[u] = "select"

\* C6: OCC version monotonicity: in every step of the run that follows the
\* bootstrap the stored version never decreases: it grows by exactly 1 in a step
\* that commits a compare-and-swap and is unchanged by every other step.
OCCVersionMonotone ==
    [][(strategy = "optimistic_concurrency_control" /\ mainPc # "bootstrap" /\ RowExists)
          => /\ RowExists'
             /\ StoredVersion' = IF Len(casLog') > Len(casLog)
                                 THEN StoredVersion + 1
                                 ELSE StoredVersion]_vars

\* Both workers of an OCC run have committed compare-and-swaps.
OCCVersionMonotoneWitness ==
    /\ strategy = "optimistic_concurrency_control"
    /\ bootstrapped
    /\ Len(casLog) = 4
    /\ StoredVersion = 5
    /\ commits[0] = 2 /\ commits[1] = 2

\* C7: OCC uniqueness of winners: no two committed compare-and-swaps of a run
\* had the same expectedVersion.
OCCUniqueWinners ==
    strategy = "optimistic_concurrency_control"
        => \A j, k \in 1..Len(casLog) : casLog[j] = casLog[k] => j = k

\* Two different workers have each won a compare-and-swap.
OCCUniqueWinnersWitness ==
    /\ strategy = "optimistic_concurrency_control"
    /\ Len(casLog) >= 2
    /\ commits[0] >= 1 /\ commits[1] >= 1

\* C8: bootstrapper reset and idempotence: whatever the table held, after a
\* successful ensure_row_exists it holds exactly the row (user_id 1, counter 0,
\* version 1); the upsert maps every table the run can reach to that table, and
\* applying it again changes nothing.
BootstrapResets ==
    /\ (bootstrapped /\ started = 0) => user_counter = (1 :> BootRow)
    /\ Upsert(user_counter) = (1 :> BootRow)
    /\ Upsert(Upsert(user_counter)) = Upsert(user_counter)

\* ensure_row_exists has returned after its commit and no worker is started yet.
BootstrapResetsWitness ==
    /\ bootstrapped
    /\ mainPc = "spawn"
    /\ started = 0
    /\ user_counter = (1 :> BootRow)

\* C9: bootstrap-before-workers ordering: while ensure_row_exists has not
\* returned no worker has been started, in each of the four strategies.
BootstrapBeforeWorkers ==
    mainPc = "bootstrap" => (started = 0 /\ \A w \in Procs : pc[w] = "unstarted")

\* A worker is inside its loop while the spawn loop is still running, after the
\* bootstrap has returned.
BootstrapBeforeWorkersWitness ==
    /\ mainPc = "spawn"
    /\ bootstrapped
    /\ \E w \in Workers : pc[w] = "commit"

\* C10: bootstrap failure is fatal to the run: as long as ensure_row_exists has
\* not committed its upsert (it is still running, or it failed to connect, or
\* its upsert raised) no worker process is started; a failed bootstrap stops the
\* run before the spawn loop.
BootstrapFailureIsFatal ==
    ~bootstrapped => (started = 0 /\ \A w \in Procs : pc[w] = "unstarted")

\* C11: join-before-report ordering: when the pool report is printed every
\* worker of the pool has ended, so no worker reads or writes the row after it.
JoinBeforeReport ==
    mainPc \in {"report", "done"}
        => /\ started = NUM_PROCESSES
           /\ \A w \in Workers : pc[w] \in {"terminated", "crashed"} /\ ~holds[w]

\* The report of a pool of two workers that both committed updates is printed.
JoinBeforeReportWitness ==
    /\ mainPc = "done"
    /\ NUM_PROCESSES = 2
    /\ \A w \in Workers : pc[w] = "terminated" /\ commits[w] >= 1

\* C12: the pool report is always printed: once the workers have been started
\* the report is eventually printed, whatever failures the workers suffer.
PoolReportAlwaysPrinted ==
    (mainPc = "join") ~> (mainPc = "done")

\* C13: error containment: every started worker that itself meets no error
\* (store error or missing row) eventually completes all NUM_UPDATES of its
\* iterations, whatever happens to its siblings.
ErrorContainment ==
    \A w \in Procs :
        (pc[w] = "connect") ~>
            (met[w] # {} \/ (pc[w] = "terminated" /\ commits[w] = NUM_UPDATES))

\* A worker has completed all its iterations although a sibling aborted on a
\* store error.
ErrorContainmentWitness ==
    \E w, u \in Workers :
        /\ w # u
        /\ "StoreUnavailable" \in met[u] /\ pc[u] = "terminated"
        /\ commits[u] < NUM_UPDATES
        /\ met[w] = {} /\ pc[w] = "terminated" /\ commits[w] = NUM_UPDATES

\* C14: RowMissing is fatal for the worker's loop: in every strategy a worker
\* that found no row for user_id = 1 has left its loop and runs no further pass.
RowMissingStopsWorker ==
    \A w \in Procs : "RowMissing" \in met[w] => pc[w] \in {"finally", "terminated"}

\* C15: StoreUnavailable aborts the loop outside OCC: in lost_update,
\* in_place_update and row_level_locking a worker that met a store error is out
\* of its loop (it executes no further statement), and no later step of it
\* commits anything: its count of commits and the committed row stay as they
\* are when it closes its connection.
StoreErrorAborts ==
    /\ [](strategy # "optimistic_concurrency_control"
            => \A w \in Procs : "StoreUnavailable" \in met[w]
                  => pc[w] \in {"finally", "terminated", "crashed"})
    /\ [][strategy # "optimistic_concurrency_control"
            => \A w \in Procs : "StoreUnavailable" \in met[w]
                  => /\ commits'[w] = commits[w]
                     /\ pc'[w] # pc[w] => user_counter' = user_counter]_vars

\* A row-lock worker aborted on a store error before the end of its loop and
\* closed its connection; its sibling committed all its updates.
StoreErrorAbortsWitness ==
    /\ strategy = "row_level_locking"
    /\ \E w, u \in Workers :
          /\ w # u
          /\ "StoreUnavailable" \in met[w] /\ pc[w] = "terminated"
          /\ i[w] < NUM_UPDATES
          /\ commits[u] = NUM_UPDATES

\* A step of OCC in which a statement of a connected worker raises.
OCCStatementRaises ==
    /\ strategy = "optimistic_concurrency_control"
    /\ errs' = errs + 1
    /\ mainPc # "bootstrap"
    /\ \A w \in Procs : pc[w] = "connect" => pc'[w] = "connect"

\* The raising worker w rolls back and repeats the round of the same pass.
OCCRetriesSamePass(w) ==
    /\ pc[w] \in {"select", "update", "commit"}
    /\ pc' = [pc EXCEPT ![w] = "select"]
    /\ holds' = [holds EXCEPT ![w] = FALSE]
    /\ i' = i /\ commits' = commits /\ user_counter' = user_counter

\* The raising worker w leaves its loop without advancing.
OCCGivesUp(w) ==
    /\ pc[w] \in {"select", "update", "commit"}
    /\ pc' = [pc EXCEPT ![w] = "finally"]
    /\ i' = i /\ commits' = commits /\ user_counter' = user_counter

\* C16 as stated: whenever a statement of an OCC pass raises a store error the
\* worker does not terminate and does not advance: it rolls back and repeats
\* read-compute-swap for the same loop index.
OCCStoreErrorAlwaysRetried ==
    [][OCCStatementRaises => \E w \in Workers : OCCRetriesSamePass(w)]_vars

\* C16 as amended: whenever a statement of an OCC pass raises a store error the
\* worker does not advance and commits nothing: it rolls back and repeats
\* read-compute-swap for the same loop index, or, when the rollback raises too,
\* it leaves the loop and terminates.
OCCStoreErrorRetriedOrFatal ==
    [][OCCStatementRaises
          => \E w \in Workers : OCCRetriesSamePass(w) \/ OCCGivesUp(w)]_vars

\* An OCC worker that met a store error in its first pass is back at the
\* conditional UPDATE of that pass.
OCCStoreErrorRetriedOrFatalWitness ==
    /\ strategy = "optimistic_concurrency_control"
    /\ \E w \in Workers :
          /\ "StoreUnavailable" \in met[w]
          /\ pc[w] = "update" /\ i[w] = 0 /\ commits[w] = 0

\* C17: an OCC version conflict is retried, not counted: the step of a worker
\* whose conditional UPDATE does not apply leads to the read of the same pass
\* (same loop index, nothing committed, the stale pair dropped), and every read
\* takes counter and version from the committed row.
OCCConflictRetried ==
    [][strategy = "optimistic_concurrency_control"
          => \A w \in Workers :
                /\ (pc[w] = "update" /\ ~CasApplies(w) /\ pc'[w] # "update"
                        /\ errs' = errs)
                      => /\ pc'[w] = "select"
                         /\ i'[w] = i[w]
                         /\ commits' = commits
                         /\ user_counter' = user_counter
                /\ (pc[w] = "select" /\ pc'[w] = "update")
                      => /\ version'[w] = StoredVersion
                         /\ counter'[w] = StoredCounter + 1]_vars

\* A worker in its second pass is at a conditional UPDATE that will not apply:
\* the version it read has been replaced since.
OCCConflictRetriedWitness ==
    /\ strategy = "optimistic_concurrency_control"
    /\ \E w \in Workers :
          pc[w] = "update" /\ i[w] = 1 /\ RowExists /\ StoredVersion # version[w]

CompareAndSwapConditional ==
    [][strategy = "optimistic_concurrency_control"
          => \A w \in Workers :
                /\ (pc[w] = "update" /\ pc'[w] # "update" /\ errs' = errs)
                      => /\ (pc'[w] = "commit")
                               <=> (RowExists /\ StoredVersion = version[w])
                         /\ user_counter' = user_counter
                /\ (pc[w] = "commit" /\ commits'[w] = commits[w] + 1)
                      => /\ StoredVersion = version[w]
                         /\ user_counter'[1] =
                               [counter |-> counter[w], version |-> version[w] + 1]]_vars

\* One worker is about to commit its applied UPDATE while another one is at its
\* conditional UPDATE with the same expected version.
CompareAndSwapConditionalWitness ==
    /\ strategy = "optimistic_concurrency_control"
    /\ \E w, u \in Workers :
          /\ w # u
          /\ pc[w] = "commit" /\ holds[w]
          /\ pc[u] = "update" /\ version[u] = version[w]

\* C20: no spurious OCC conflicts: a worker's conditional UPDATE fails to match
\* only when a compare-and-swap with the expected version it read has been
\* committed since its read; with a single worker it always matches.
OCCNoSpuriousConflict ==
    strategy = "optimistic_concurrency_control"
        => \A w \in Workers :
              (pc[w] = "update" /\ ~CasApplies(w))
                  => /\ NUM_PROCESSES > 1
                     /\ \E k \in 1..Len(casLog) : casLog[k] = version[w]

\* After the bootstrap a worker is at a conditional UPDATE whose expected
\* version another worker's committed compare-and-swap has used up.
OCCNoSpuriousConflictWitness ==
    /\ strategy = "optimistic_concurrency_control"
    /\ bootstrapped
    /\ \E w \in Workers :
          /\ pc[w] = "update" /\ ~CasApplies(w)
          /\ commits[w] = 0
          /\ Len(casLog) >= 1

\* C21: atomicIncrement returns the post-increment value: the UPDATE ...
\* RETURNING counter of the in-place strategy returns the committed counter plus
\* one, the commit that follows makes exactly that value the stored counter, so
\* every committed increment returns a value one above the previous one (no value
\* is returned twice), and in a run free of store errors the k-th committed
\* increment returns k, up to p * n.
AtomicIncrementReturnsNewValue ==
    [][strategy = "in_place_update"
          => \A w \in Workers :
                /\ (pc[w] = "update" /\ pc'[w] = "commit")
                      => counter'[w] = StoredCounter + 1
                /\ (commits'[w] = commits[w] + 1)
                      => /\ StoredCounter' = counter[w]
                         /\ StoredCounter' = StoredCounter + 1
                         /\ errs = 0 => /\ counter[w] = TotalCommits'
                                        /\ counter[w] <= ExpectedTotal]_vars

\* Both workers of an error-free in-place run have committed one increment each
\* and one of them has got the value 3 from its second one.
AtomicIncrementReturnsNewValueWitness ==
    /\ strategy = "in_place_update"
    /\ errs = 0
    /\ \E w, u \in Workers :
          /\ w # u
          /\ commits[w] = 1 /\ commits[u] = 1
          /\ pc[w] = "commit" /\ counter[w] = 3

\* C22: row-lock serializes read-modify-write: from a worker's locking read until
\* its commit it holds the lock and the stored counter is still the one it read,
\* so it writes the stored counter plus 1, and the k-th commit of a run writes
\* the value k (the committed values are 1, 2, 3, ... without repeat or gap).
RowLockSerializes ==
    /\ [](strategy = "row_level_locking"
            => \A w \in Procs : pc[w] \in {"update", "commit"}
                  => (holds[w] /\ counter[w] = StoredCounter + 1))
    /\ [][strategy = "row_level_locking"
            => \A w \in Workers : (commits'[w] = commits[w] + 1)
                  => /\ StoredCounter' = StoredCounter + 1
                     /\ StoredCounter' = TotalCommits']_vars

\* C23: scoped resource release: a worker reaches its end only through the
\* finally clause, whose close ends its transaction and releases the row lock;
\* no terminated worker holds the lock, whether it finished its loop or aborted.
ScopedResourceRelease ==
    /\ [](\A w \in Procs : pc[w] = "terminated" => ~holds[w])
    /\ [][\A w \in Procs : (pc'[w] = "terminated" /\ pc[w] # "terminated")
            => (pc[w] = "finally" /\ ~holds'[w])]_vars

\* A worker that aborted on a store error while it held the row lock has
\* terminated, and its sibling now holds the lock.
ScopedResourceReleaseWitness ==
    /\ strategy = "row_level_locking"
    /\ \E w, u \in Workers :
          /\ w # u
          /\ pc[w] = "terminated" /\ "StoreUnavailable" \in met[w]
          /\ commits[w] = 0 /\ commits[u] = 0
          /\ holds[u] /\ pc[u] = "commit"

\* C24: degradation by failed workers: in in-place, row-lock and OCC, in every
\* state of the run the stored counter equals the number of updates committed
\* so far by all workers, and the pool starts no more than NUM_PROCESSES
\* workers.
CounterEqualsCommits ==
    /\ started <= NUM_PROCESSES
    /\ (strategy # "lost_update" /\ mainPc \notin {"bootstrap", "crashed"} /\ RowExists)
          => StoredCounter = TotalCommits

\* C25: workers run to completion without deadlock: in lost-update, in-place
\* and row-lock, under fair scheduling every started worker eventually
\* terminates, and in row-lock a worker at its locking read eventually gets the
\* lock (or leaves the read because the row is missing or the statement raised).
WorkersTerminate ==
    \A w \in Procs :
        /\ (strategy # "optimistic_concurrency_control" /\ pc[w] = "connect")
              ~> (pc[w] \in {"terminated", "crashed"})
        /\ (strategy = "row_level_locking" /\ pc[w] = "select")
              ~> (holds[w] \/ met[w] # {})

\* A row-lock run of two workers is over: one worker aborted on a store error,
\* the other one, which had to wait for the lock, committed all its updates.
WorkersTerminateWitness ==
    /\ strategy = "row_level_locking"
    /\ mainPc = "done"
    /\ NUM_PROCESSES = 2 /\ NUM_UPDATES = 2
    /\ \E w, u \in Workers :
          /\ w # u
          /\ pc[w] = "terminated" /\ commits[w] = 1 /\ "StoreUnavailable" \in met[w]
          /\ pc[u] = "terminated" /\ commits[u] = 2

\* C26: the OCC retry loop makes progress: under weak fairness, as long as no
\* store error occurs every started OCC worker eventually terminates with all
\* its NUM_UPDATES updates committed.
OCCRetryLoopProgress ==
    \A w \in Procs :
        (strategy = "optimistic_concurrency_control" /\ pc[w] = "connect")
            ~> (errs > 0 \/ (pc[w] = "terminated" /\ commits[w] = NUM_UPDATES))

\* An error-free OCC run of two workers is over and every compare-and-swap that
\* was needed has been committed.
OCCRetryLoopProgressWitness ==
    /\ strategy = "optimistic_concurrency_control"
    /\ errs = 0
    /\ mainPc = "done"
    /\ NUM_PROCESSES = 2
    /\ Len(casLog) = 2 * NUM_UPDATES
    /\ \A w \in Workers : commits[w] = NUM_UPDATES

\* C27: pool size and per-worker iteration bound: the pool starts exactly
\* NUM_PROCESSES workers (all of them once the spawn loop is over, never a worker
\* beyond them), no worker commits more than NUM_UPDATES updates, and a worker
\* that terminated without meeting a store error or a missing row committed
\* exactly NUM_UPDATES.
PoolSizeAndIterationBound ==
    /\ started <= NUM_PROCESSES
    /\ mainPc \in {"join", "report", "done"} => started = NUM_PROCESSES
    /\ \A w \in Procs :
          /\ (pc[w] # "unstarted") <=> (w < started)
          /\ commits[w] <= NUM_UPDATES
          /\ i[w] <= NUM_UPDATES
          /\ (pc[w] = "terminated" /\ met[w] = {}) => commits[w] = NUM_UPDATES

\* A pool of one worker is over: the worker committed its two updates and no
\* second worker was ever started.
PoolSizeAndIterationBoundWitness ==
    /\ mainPc = "done"
    /\ NUM_PROCESSES = 1 /\ NUM_UPDATES = 2
    /\ started = 1
    /\ pc[0] = "terminated" /\ met[0] = {} /\ commits[0] = 2

\* C28: lost-update writes are unconditional: the value a worker commits is the
\* one it computed from its read of the same pass (read value plus 1), whatever
\* the stored counter is when it writes, and between its read and its commit the
\* worker never goes back to the read.
LostUpdateWritesUnconditional ==
    [][strategy = "lost_update"
          => \A w \in Workers :
                /\ (pc[w] = "select" /\ pc'[w] = "update")
                      => counter'[w] = StoredCounter + 1
                /\ (pc[w] = "update" /\ pc'[w] # "update")
                      => /\ pc'[w] \in {"commit", "finally"}
                         /\ pc'[w] = "commit" => counter'[w] = counter[w]
                /\ (pc[w] = "commit" /\ pc'[w] # "commit")
                      => \/ pc'[w] = "finally" /\ commits'[w] = commits[w]
                                               /\ i'[w] = i[w]
                         \/ /\ commits'[w] = commits[w] + 1
                            /\ i'[w] = i[w] + 1
                            /\ StoredCounter' = counter[w]]_vars

\* A lost-update worker is about to commit a value computed from a read that
\* another worker's commit has overtaken.
LostUpdateWritesUnconditionalWitness ==
    /\ strategy = "lost_update"
    /\ bootstrapped
    /\ \E w \in Workers :
          pc[w] = "commit" /\ holds[w] /\ counter[w] # StoredCounter + 1

\* C29: version is untouched outside OCC: in lost-update, in-place and row-lock
\* no worker step changes the version column, and it has its bootstrap value 1 in
\* every state of the run.
VersionUntouchedOutsideOCC ==
    /\ [][(strategy # "optimistic_concurrency_control" /\ mainPc # "bootstrap"
              /\ RowExists)
            => StoredVersion' = StoredVersion]_vars
    /\ []((strategy # "optimistic_concurrency_control"
              /\ mainPc \notin {"bootstrap", "crashed"} /\ RowExists)
            => StoredVersion = 1)

\* C30: OCC keeps counter and version in step: once the row has been
\* bootstrapped to (counter 0, version 1), in every state of an OCC run the
\* stored version is the stored counter plus 1.
OCCVersionTracksCounter ==
    (strategy = "optimistic_concurrency_control" /\ bootstrapped)
        => (RowExists /\ StoredVersion = StoredCounter + 1)

\* Three compare-and-swaps have been committed after the bootstrap.
OCCVersionTracksCounterWitness ==
    /\ strategy = "optimistic_concurrency_control"
    /\ bootstrapped
    /\ StoredCounter = 3 /\ StoredVersion = 4
    /\ \E w \in Workers : pc[w] = "update" /\ version[w] = 4

\* C31: lost-update never over-counts: in every state of a lost-update run
\* started from the bootstrapped counter 0 the stored counter is at most the
\* number of writes committed so far, hence at most p * n.
LostUpdateNeverOverCounts ==
    (strategy = "lost_update" /\ bootstrapped)
        => /\ RowExists
           /\ StoredCounter <= TotalCommits
           /\ StoredCounter <= ExpectedTotal

\* Three writes have been committed and the counter is 2.
LostUpdateNeverOverCountsWitness ==
    /\ strategy = "lost_update"
    /\ bootstrapped
    /\ TotalCommits = 3
    /\ StoredCounter = 2

\* C32: lost-update lower bound: an error-free lost-update run with at least two
\* workers and at least two updates each, started from counter 0, ends with a
\* counter of at least 2.
LostUpdateLowerBound ==
    (strategy = "lost_update" /\ CompletedClean /\ errs = 0
        /\ NUM_PROCESSES >= 2 /\ NUM_UPDATES >= 2)
        => StoredCounter >= 2

\* An error-free run of two workers with three updates each is over and the
\* counter is 2, below the number of increments of a single worker.
LostUpdateLowerBoundWitness ==
    /\ strategy = "lost_update"
    /\ CompletedClean
    /\ errs = 0
    /\ mainPc = "done"
    /\ NUM_PROCESSES = 2 /\ NUM_UPDATES = 3
    /\ StoredCounter = 2
    /\ StoredCounter < NUM_UPDATES

\* C33: the row is never deleted: no step removes the row for user_id = 1, so
\* once ensure_row_exists has committed the row exists in every later state and
\* no worker has met a missing row.
RowNeverDeleted ==
    /\ [][RowExists => RowExists']_vars
    /\ [](bootstrapped
            => (RowExists /\ \A w \in Procs : "RowMissing" \notin met[w]))

\* After a successful bootstrap both OCC workers have run their loops to the
\* end, with reads in every pass, and none met a missing row.
RowNeverDeletedWitness ==
    /\ strategy = "optimistic_concurrency_control"
    /\ bootstrapped
    /\ mainPc = "done"
    /\ NUM_PROCESSES = 2
    /\ \A w \in Workers : i[w] = NUM_UPDATES /\ "RowMissing" \notin met[w]

\* connect_to_cluster has returned to run_test.
ConnectReturned == cpc \in {"test_read", "test_write", "test_row", "done"}

\* C34: connect_to_cluster bounded retry: it makes at most max_retries attempts;
\* it returns only with a session, that of its first successful attempt (every
\* attempt before failed and was followed by one sleep); when max_retries
\* attempts have failed it raises the error of the last one, having slept only
\* between attempts.
ConnectBoundedRetry ==
    /\ connAttempts <= max_retries
    /\ retry_count <= max_retries
    /\ ConnectReturned
          => /\ session = "session"
             /\ connAttempts = retry_count + 1
             /\ connSleeps = retry_count
             /\ raisedError = "none"
    /\ (cpc = "raised" /\ raisedError \in ConnectionErrors)
          => /\ session = "none"
             /\ connAttempts = max_retries
             /\ retry_count = max_retries
             /\ raisedError = lastError
             /\ connSleeps = max_retries - 1
    /\ session = "session" => ConnectReturned

\* All of three attempts failed and the error of the last one was raised.
ConnectBoundedRetryWitness ==
    /\ cpc = "raised"
    /\ max_retries = 3
    /\ connAttempts = 3
    /\ connSleeps = 2
    /\ raisedError = "OperationTimedOut"

\* wait_for_cluster_ready has returned.
WaitReturned == ready # "pending"

\* C35: wait_for_cluster_ready bounded polling: it makes at most max_attempts
\* attempts; it returns True at its first successful attempt and False right
\* after the max_attempts-th failure, having slept once between two attempts
\* and not after the last; no exception leaves it.
WaitBoundedPolling ==
    /\ waitAttempts <= max_attempts
    /\ attempt <= max_attempts
    /\ ready = "True" => (waitAttempts = attempt /\ waitSleeps = waitAttempts - 1)
    /\ ready = "False" => (waitAttempts = max_attempts /\ waitSleeps = max_attempts - 1)
    /\ cpc \in {"wait_try", "wait_sleep"} <=> ~WaitReturned
    /\ cpc = "raised" => WaitReturned

\* wait_for_cluster_ready returned False after three failed attempts and two
\* sleeps; connect_to_cluster is called next.
WaitBoundedPollingWitness ==
    /\ ready = "False"
    /\ max_attempts = 3
    /\ waitAttempts = 3
    /\ waitSleeps = 2
    /\ cpc = "connect_auth"

\* read replicas + write replicas > RF, for the replicas the level requires.
StrongByRule(level, rf) == Replicas(level, rf) + Replicas(level, rf) > rf

\* C36: strong-consistency flag: every row added to the table, for replication
\* factor 1, 2 or 3 and level ONE, TWO, THREE, QUORUM or ALL, is marked N/A when
\* the read or the write failed, and otherwise is marked strongly consistent
\* exactly when read replicas + write replicas > RF.
StrongConsistencyFlag ==
    /\ \A k \in 1..Len(keyspaces), l \in 1..Len(consistency_levels) :
          StrongByCode(ConsistencyLevel[consistency_levels[l]], keyspaces[k])
              <=> StrongByRule(consistency_levels[l], keyspaces[k])
    /\ added_row # << >>
          => /\ added_row.rf \in {1, 2, 3}
             /\ added_row.strong_consistency =
                   IF ~added_row.read_works \/ ~added_row.write_works THEN "N/A"
                   ELSE IF StrongByRule(added_row.cl_name, added_row.rf)
                        THEN "yes" ELSE "no"

\* The row of level ONE on the keyspace of replication factor 2, with read and
\* write both successful, is marked not strongly consistent.
StrongConsistencyFlagWitness ==
    /\ added_row # << >>
    /\ added_row.rf = 2
    /\ added_row.cl_name = "ONE"
    /\ added_row.read_works /\ added_row.write_works
    /\ added_row.strong_consistency = "no"

====
